---- MODULE Spec2Model ----
(***************************************************************************)
(* A model of the marketing generator backend: the Record Store adapter    *)
(* (supabase_db.py), the artifact transfer (supabase_storage.py), the      *)
(* engine client, per-item worker and batch controller                     *)
(* (image_generator.py), the two orchestrators (main.py) and the two       *)
(* generation endpoints and the read endpoint (app.py).                    *)
(*                                                                         *)
(* One generation session is followed.  Every network call is a step of    *)
(* its own, so that the threads of one batch interleave exactly at the     *)
(* points where the Python threads can.                                    *)
(***************************************************************************)
EXTENDS Integers, Sequences, FiniteSets, TLC

\* ---------------------------------------------------------------- bounds
\* Largest prompt list a batch is given.
MaxItems == 3
\* Non-terminal poll answers (processing, or a poll that errors) the engine
\* gives to one batch before every further answer is terminal.
MaxPolls == 2
\* Failures the external services (engine, object storage, Record Store,
\* text generation) show in one run.
MaxFaults == 1

Items == 0..(MaxItems - 1)

VARIABLES
    entry,               \* which public entry point this run exercises
    pc,                  \* position of the main (request) thread
    a2e_configured,      \* API_KEY and BASE_URL are both set
    client,              \* MarketingDB._get_client() returns a client
    table_generations,   \* Supabase marketing_generations: <<>> or <<row>>
    table_images,        \* Supabase marketing_images: set of rows
    memory_generations,  \* MarketingDB._memory_generations: <<>> or <<rec>>
    memory_has_list,     \* generation_id in MarketingDB._memory_images
    memory_images,       \* MarketingDB._memory_images[generation_id]
    prompts_list,        \* number of prompts handed to the batch
    ctl,                 \* position of generate_images_parallel
    idx,                 \* the submit loop's index
    w,                   \* the worker threads, one per item index
    collected,           \* the futures as_completed has yielded, in order
    completed_count,     \* generate_images_parallel's completed_count
    generated_results,   \* generate_images_parallel's generated_results
    polls_left,          \* non-terminal poll answers the engine may still give
    finalize_calls,      \* the complete_generation/fail_generation calls made
    events,              \* events delivered to the caller of a stream
    http,                \* outcome of the HTTP request, "" while running
    angles_task,         \* the creative-angles call of the orchestrator
    email_task,          \* the email call of the orchestrator
    reader,              \* user_id of the request that reads the session
    got,                 \* what db.get_generation returned to its caller
    faults_left          \* failures the external services may still show

vars == <<entry, pc, a2e_configured, client, table_generations, table_images,
          memory_generations, memory_has_list, memory_images, prompts_list,
          ctl, idx, w, collected, completed_count, generated_results,
          polls_left, finalize_calls, events, http, angles_task,
          email_task, reader, got, faults_left>>

store_vars == <<table_generations, table_images, memory_generations,
                memory_has_list, memory_images>>
collect_vars == <<collected, completed_count, generated_results>>
batch_vars == <<ctl, idx, w, collect_vars, polls_left>>
env_vars == <<entry, a2e_configured, client, prompts_list, reader>>
caller_vars == <<finalize_calls, events, http, angles_task, email_task,
                 got>>

\* ------------------------------------------------------- record helpers
\* dict.get(key, default)
Get(rec, key, default) == IF key \in DOMAIN rec THEN rec[key] ELSE default

\* dict.update(data)
Update(rec, data) ==
    [k \in (DOMAIN rec) \cup (DOMAIN data) |->
        IF k \in DOMAIN data THEN data[k] ELSE rec[k]]

\* The users of the service.  Owner is the user whose request creates the
\* session; NoUser stands for a user_id that is None or empty.
Users == {"user_a", "user_b"}
Owner == "user_a"
NoUser == ""

\* The row create_generation_session inserts into marketing_generations.
NewRow == [user_id |-> Owner, status |-> "processing", total_images |-> 0,
           completed_images |-> 0]

\* The record create_generation_session keeps in memory when the insert fails:
\* it has neither total_images nor completed_images.
NewMemoryRecord == [user_id |-> Owner, status |-> "processing"]

\* A worker that has not been submitted to the executor.
IdleWorker == [pc |-> "unsubmitted", fault |-> "",
               storage_type |-> "", store |-> "", val |-> 0, inc |-> ""]

\* The session record, wherever it lives (the two stores never both hold it:
\* the memory fallback is created under a fresh id).
HasSession == table_generations # <<>> \/ memory_generations # <<>>
Session == IF table_generations # <<>> THEN table_generations[1]
           ELSE memory_generations[1]

\* n failures of an external service happen in this step.
Spend(n) == /\ n <= faults_left
            /\ faults_left' = faults_left - n

Cost(failed) == IF failed THEN 1 ELSE 0

\* ------------------------------------------------- Record Store adapter
\* Whether a Supabase request can raise: without a client none is made.
Raises == IF client THEN BOOLEAN ELSE {FALSE}

\* A Supabase update ... .eq("id", generation_id) names a row of the table:
\* the request went through and the session's row is there (response.data is
\* then non-empty).
UpdatesRow(exc) == client /\ ~exc /\ table_generations # <<>>

\* MarketingDB.create_generation_session: the row is inserted, or (no client,
\* the insert raises or returns no data) the failure is caught and a record is
\* kept in memory instead, and an id is returned either way.
create_generation_session(exc) ==
    IF client /\ ~exc
    THEN /\ table_generations' = <<NewRow>>
         /\ UNCHANGED memory_generations
    ELSE /\ memory_generations' = <<NewMemoryRecord>>
         /\ UNCHANGED table_generations

\* The write the three session updates share: the Supabase row when the
\* update names one, else the memory record when there is one, else nothing.
WriteSession(data, exc) ==
    IF UpdatesRow(exc)
    THEN /\ table_generations' = <<Update(table_generations[1], data)>>
         /\ UNCHANGED memory_generations
    ELSE IF memory_generations # <<>>
    THEN /\ memory_generations' = <<Update(memory_generations[1], data)>>
         /\ UNCHANGED table_generations
    ELSE UNCHANGED <<table_generations, memory_generations>>

\* MarketingDB.update_generation_assets and the bool it returns.
update_generation_assets(total_images, exc) ==
    WriteSession([total_images |-> total_images], exc)

update_generation_assets_returns(exc) ==
    UpdatesRow(exc) \/ memory_generations # <<>>

\* MarketingDB.complete_generation: no guard on the current status.
complete_generation(exc) == WriteSession([status |-> "completed"], exc)

\* MarketingDB.fail_generation: no guard on the current status.  Unlike the
\* two above, a Supabase update that does not raise returns at once with
\* len(response.data) > 0, and the memory record is reached only when there
\* is no client or the update raised.
fail_generation(exc) ==
    IF client /\ ~exc
    THEN /\ table_generations' =
              IF table_generations # <<>>
              THEN <<Update(table_generations[1], [status |-> "failed"])>>
              ELSE table_generations
         /\ UNCHANGED memory_generations
    ELSE IF memory_generations # <<>>
    THEN /\ memory_generations' =
              <<Update(memory_generations[1], [status |-> "failed"])>>
         /\ UNCHANGED table_generations
    ELSE UNCHANGED <<table_generations, memory_generations>>

\* Records that take their index from the number of records stored so far.
ImageRecordInInsertOrder(i, storage_type, store) ==
    [image_index |-> Cardinality(table_images) + Len(memory_images),
     storage_type |-> storage_type, store |-> store]

\* ------------------------------------------------ the per-item worker
\* The dict process_single_image returns for item i: the inserted row
\* (response.data[0]) or the image_data kept in memory.
ImageRecord(i, storage_type, store) ==
    [image_index |-> i, storage_type |-> storage_type, store |-> store]

\* What a finished worker's future holds: its record (truthy), or None.
Saved(worker) == worker.store # ""
Result(i, worker) == ImageRecord(i, worker.storage_type, worker.store)

\* What the collect loop does with a finished future (image_generator.py
\* 153-155): a truthy result is appended, None is dropped.
Collected(results, i, worker) ==
    IF Saved(worker) THEN Append(results, Result(i, worker)) ELSE results

\* Worker i goes on to its next step.
Continue(i, worker) ==
    /\ w' = [w EXCEPT ![i] = worker]
    /\ UNCHANGED collect_vars

\* A future whose completion does not reach the waiting as_completed.
FinishUnnoticed(i, worker) ==
    /\ w' = [w EXCEPT ![i] = worker]
    /\ UNCHANGED collect_vars

\* Worker i returns and its future is done.  Once as_completed is waiting,
\* the future is handed to it in completion order and the body of the collect
\* loop (lines 148-158), which touches only locals of the controller, is taken
\* in the same step.
Finish(i, worker) ==
    /\ w' = [w EXCEPT ![i] = worker]
    /\ IF ctl = "collecting"
       THEN /\ collected' = Append(collected, i)
            /\ completed_count' = completed_count + 1
            /\ generated_results' = Collected(generated_results, i, worker)
       ELSE UNCHANGED collect_vars

\* A worker out of which the failure escapes as an exception.
RaisesInstead(i, fault) ==
    Finish(i, [w[i] EXCEPT !.pc = "raised", !.fault = fault])

\* process_single_image returns None (lines 109-111).
ReturnNone(i, fault) ==
    Finish(i, [w[i] EXCEPT !.pc = "done", !.fault = fault])

\* process_single_image returns saved_image (line 107).
ReturnSaved(i, store, inc) ==
    Finish(i, [w[i] EXCEPT !.pc = "done", !.store = store, !.inc = inc,
                           !.val = 0])

\* An engine client that goes on to poll after a failed submit.
a2e_submit_then_poll(i) ==
    /\ w[i].pc = "start"
    /\ IF ~a2e_configured
       THEN /\ ReturnNone(i, "credentials")
            /\ Spend(0)
       ELSE \E ok \in BOOLEAN :
              /\ Continue(i, [w[i] EXCEPT !.pc = "polling",
                                  !.fault = IF ok THEN "" ELSE "submit"])
              /\ Spend(Cost(~ok))
    /\ UNCHANGED <<pc, env_vars, store_vars, ctl, idx, polls_left,
                   caller_vars>>

\* generate_single_image_a2e, lines 17-43: the credentials check and the one
\* submit request.  Any failure returns None at once.
a2e_submit(i) ==
    /\ w[i].pc = "start"
    /\ IF ~a2e_configured
       THEN /\ ReturnNone(i, "credentials")
            /\ Spend(0)
       ELSE \E ok \in BOOLEAN :
              /\ IF ok THEN Continue(i, [w[i] EXCEPT !.pc = "polling"])
                       ELSE ReturnNone(i, "submit")
              /\ Spend(Cost(~ok))
    /\ UNCHANGED <<pc, env_vars, store_vars, ctl, idx, polls_left,
                   caller_vars>>

\* A poll loop that a raising poll request ends.
PollStepEndsOnError(i, status) ==
    CASE status = "completed" ->
           Continue(i, [w[i] EXCEPT !.pc = "generated"])
      [] status = "completed_no_urls" -> ReturnNone(i, "no_urls")
      [] status = "failed" -> ReturnNone(i, "failed")
      [] status = "error" -> ReturnNone(i, "poll_error")
      [] OTHER -> Continue(i, w[i])

\* A poll loop that gives an item up at the first answer that is neither
\* completed nor failed.
PollStepWithDeadline(i, status) ==
    CASE status = "completed" ->
           Continue(i, [w[i] EXCEPT !.pc = "generated"])
      [] status = "completed_no_urls" -> ReturnNone(i, "no_urls")
      [] status = "failed" -> ReturnNone(i, "failed")
      [] OTHER -> ReturnNone(i, "deadline")

\* A worker that goes on to the transfer when the engine reports completed
\* without a URL.
PollStepTakesNoUrl(i, status) ==
    CASE status = "completed" ->
           Continue(i, [w[i] EXCEPT !.pc = "generated"])
      [] status = "completed_no_urls" ->
           Continue(i, [w[i] EXCEPT !.pc = "generated", !.fault = "no_urls"])
      [] status = "failed" -> ReturnNone(i, "failed")
      [] OTHER -> Continue(i, w[i])

\* What one pass of the poll loop (lines 51-74) does with the answer it got.
\* A poll that raises, or a status other than completed or failed, goes round
\* the loop again; there is no bound on the number of passes.
PollStep(i, status) ==
    CASE status = "completed" ->
           Continue(i, [w[i] EXCEPT !.pc = "generated"])
      [] status = "completed_no_urls" -> ReturnNone(i, "no_urls")
      [] status = "failed" -> ReturnNone(i, "failed")
      [] OTHER -> Continue(i, w[i])

PollAnswers == {"processing", "error", "completed", "completed_no_urls", "failed"}
NonTerminal == {"processing", "error"}

a2e_poll(i) ==
    /\ w[i].pc = "polling"
    /\ \E status \in PollAnswers :
         /\ status \in NonTerminal => polls_left > 0
         /\ PollStep(i, status)
         /\ Spend(Cost(status \in {"completed_no_urls", "failed"}))
         /\ polls_left' = IF status \in NonTerminal THEN polls_left - 1
                          ELSE polls_left
    /\ UNCHANGED <<pc, env_vars, store_vars, ctl, idx, caller_vars>>

\* SupabaseStorage.upload_image_from_url as add_generated_image calls it
\* (supabase_db.py:159-163).  The download may fail (None).  With a client the
\* upload may succeed; when there is no client, or both upload attempts fail,
\* the bytes are written under local_images/ and a result tagged "local" is
\* returned; only a failure of that local write yields None.
TransferOutcomes ==
    {"download_error", "local", "local_error"} \cup
    (IF client THEN {"supabase"} ELSE {})

\* The failures an outcome takes: of the download, of the upload (both
\* attempts) when there is a client, of the local write.
TransferFaults(out) ==
    CASE out = "supabase" -> 0
      [] out = "download_error" -> 1
      [] out = "local" -> Cost(client)
      [] out = "local_error" -> Cost(client) + 1

upload_image_from_url(i, out) ==
    CASE out = "download_error" -> ReturnNone(i, "download")
      [] out = "local_error" -> ReturnNone(i, "local_write")
      [] OTHER -> Continue(i, [w[i] EXCEPT !.pc = "uploaded",
                                            !.storage_type = out])

\* Workers that transfer one after the other, in the order of their index.
transfer_in_turn(i) ==
    /\ w[i].pc = "generated"
    /\ \A j \in Items : j < i => w[j].pc \in {"unsubmitted", "done"}
    /\ \E out \in TransferOutcomes :
         /\ upload_image_from_url(i, out)
         /\ Spend(TransferFaults(out))
    /\ UNCHANGED <<pc, env_vars, store_vars, ctl, idx, polls_left,
                   caller_vars>>

transfer(i) ==
    /\ w[i].pc = "generated"
    /\ \E out \in TransferOutcomes :
         /\ upload_image_from_url(i, out)
         /\ Spend(TransferFaults(out))
    /\ UNCHANGED <<pc, env_vars, store_vars, ctl, idx, polls_left,
                   caller_vars>>

\* An insert whose row reaches the table although the request raises, so
\* that the memory fallback keeps a second record of the item.
insert_image_kept_on_error(i) ==
    /\ w[i].pc = "uploaded"
    /\ \E exc \in Raises :
         /\ IF client
            THEN table_images' = table_images \cup
                        {ImageRecord(i, w[i].storage_type, "supabase")}
            ELSE UNCHANGED table_images
         /\ IF client /\ ~exc
            THEN Continue(i, [w[i] EXCEPT !.pc = "inserted"])
            ELSE Continue(i, [w[i] EXCEPT !.pc = "memory_check"])
         /\ Spend(Cost(exc))
    /\ UNCHANGED <<pc, env_vars, table_generations, memory_generations,
                   memory_has_list, memory_images, ctl, idx, polls_left,
                   caller_vars>>

\* add_generated_image, lines 183-193: the insert into marketing_images.  When
\* it raises or returns no data, or there is no client, control falls through
\* to the memory fallback of lines 195-207.
insert_image(i) ==
    /\ w[i].pc = "uploaded"
    /\ \E exc \in Raises :
         /\ IF client /\ ~exc
            THEN /\ table_images' = table_images \cup
                        {ImageRecord(i, w[i].storage_type, "supabase")}
                 /\ Continue(i, [w[i] EXCEPT !.pc = "inserted"])
            ELSE /\ Continue(i, [w[i] EXCEPT !.pc = "memory_check"])
                 /\ UNCHANGED table_images
         /\ Spend(Cost(exc))
    /\ UNCHANGED <<pc, env_vars, table_generations, memory_generations,
                   memory_has_list, memory_images, ctl, idx, polls_left,
                   caller_vars>>

\* _increment_completed_images, first request: the select of the row's
\* completed_images.  .single() raises when the row is not there; any
\* exception is swallowed and add_generated_image still returns the row.
increment_select(i) ==
    /\ w[i].pc = "inserted"
    /\ \E exc \in Raises :
         IF ~exc /\ table_generations # <<>>
         THEN /\ Continue(i, [w[i] EXCEPT !.pc = "selected",
                        !.val = table_generations[1].completed_images])
              /\ Spend(0)
         ELSE /\ ReturnSaved(i, "supabase", "select_error")
              /\ Spend(Cost(exc))
    /\ UNCHANGED <<pc, env_vars, store_vars, ctl, idx, polls_left,
                   caller_vars>>

\* The value the second request writes: the value selected, plus one.
Incremented(selected) == selected + 1

\* _increment_completed_images, second request: the update with the value
\* computed from the earlier select.
increment_update(i) ==
    /\ w[i].pc = "selected"
    /\ \E exc \in Raises :
         IF UpdatesRow(exc)
         THEN /\ table_generations' =
                   <<Update(table_generations[1],
                            [completed_images |-> Incremented(w[i].val)])>>
              /\ ReturnSaved(i, "supabase", "incremented")
              /\ Spend(0)
         ELSE /\ UNCHANGED table_generations
              /\ ReturnSaved(i, "supabase", "update_error")
              /\ Spend(Cost(exc))
    /\ UNCHANGED <<pc, env_vars, table_images, memory_generations,
                   memory_has_list, memory_images, ctl, idx, polls_left,
                   caller_vars>>

\* The memory fallback, one step per access of the shared dicts (the threads
\* of a batch can switch between any two of them).
\* line 196: generation_id not in self._memory_images
memory_check(i) ==
    /\ w[i].pc = "memory_check"
    /\ Continue(i, [w[i] EXCEPT !.pc = IF memory_has_list THEN "memory_append"
                                       ELSE "memory_init"])
    /\ UNCHANGED <<pc, env_vars, store_vars, ctl, idx, polls_left,
                   caller_vars, faults_left>>

\* line 197: self._memory_images[generation_id] = []
memory_init(i) ==
    /\ w[i].pc = "memory_init"
    /\ memory_has_list' = TRUE
    /\ memory_images' = <<>>
    /\ Continue(i, [w[i] EXCEPT !.pc = "memory_append"])
    /\ UNCHANGED <<pc, env_vars, table_generations, table_images,
                   memory_generations, ctl, idx, polls_left, caller_vars,
                   faults_left>>

\* lines 199-203: the append, then the read of the memory record's
\* completed_images when the session is in memory.
memory_append(i) ==
    /\ w[i].pc = "memory_append"
    /\ memory_images' = Append(memory_images,
                               ImageRecord(i, w[i].storage_type, "memory"))
    /\ IF memory_generations # <<>>
       THEN Continue(i, [w[i] EXCEPT !.pc = "memory_read",
                !.val = Get(memory_generations[1], "completed_images", 0)])
       ELSE ReturnSaved(i, "memory", "no_session")
    /\ UNCHANGED <<pc, env_vars, table_generations, table_images,
                   memory_generations, memory_has_list, ctl, idx, polls_left,
                   caller_vars, faults_left>>

\* line 204: the write of current + 1.
memory_write(i) ==
    /\ w[i].pc = "memory_read"
    /\ memory_generations' =
         <<Update(memory_generations[1],
                  [completed_images |-> Incremented(w[i].val)])>>
    /\ ReturnSaved(i, "memory", "incremented")
    /\ UNCHANGED <<pc, env_vars, table_generations, table_images,
                   memory_has_list, memory_images, ctl, idx, polls_left,
                   caller_vars, faults_left>>

\* One step of worker i (process_single_image in its thread).
process_single_image(i) ==
    \/ a2e_submit(i)
    \/ a2e_poll(i)
    \/ transfer(i)
    \/ insert_image(i)
    \/ increment_select(i)
    \/ increment_update(i)
    \/ memory_check(i)
    \/ memory_init(i)
    \/ memory_append(i)
    \/ memory_write(i)

\* ------------------------------------------------ the batch controller
\* list.sort(key=lambda x: x.get("image_index", 0)): a stable insertion of
\* each record after the records whose key is not larger.
RECURSIVE InsertByIndex(_, _)
InsertByIndex(rec, sorted) ==
    IF sorted = <<>> THEN <<rec>>
    ELSE IF Head(sorted).image_index <= rec.image_index
         THEN <<Head(sorted)>> \o InsertByIndex(rec, Tail(sorted))
         ELSE <<rec>> \o sorted

RECURSIVE SortByIndex(_)
SortByIndex(results) ==
    IF results = <<>> THEN <<>>
    ELSE InsertByIndex(results[Len(results)],
                       SortByIndex(SubSeq(results, 1, Len(results) - 1)))

\* A controller without the early return for an empty prompt list.
NeverReturnsAtOnce(n) == FALSE

\* Whether generate_images_parallel returns at once (lines 118-122).
NoPrompts(n) == n = 0

\* generate_images_parallel is entered: an empty prompt list returns [] at
\* once, otherwise the executor is created and the submit loop begins.
generate_images_parallel_enter ==
    /\ ctl = "idle"
    /\ IF NoPrompts(prompts_list)
       THEN /\ ctl' = "returned"
            /\ pc' = "batch_returned"
       ELSE /\ ctl' = "submitting"
            /\ pc' = "in_batch"
    /\ UNCHANGED <<idx, w, collected, completed_count, generated_results,
                   polls_left>>

\* An executor that takes the task without starting a worker for it.
Queued(worker) == worker

\* The worker the submit loop hands item i to.
Submitted(worker) == [worker EXCEPT !.pc = "start"]

\* lines 136-141: one pass of the submit loop.  executor.submit starts the
\* worker thread at once (max_workers is the number of prompts).
submit_task ==
    /\ ctl = "submitting"
    /\ idx < prompts_list
    /\ w' = [w EXCEPT ![idx] = Submitted(w[idx])]
    /\ idx' = idx + 1
    /\ UNCHANGED <<pc, env_vars, store_vars, ctl, collect_vars, polls_left,
                   caller_vars, faults_left>>

\* The orders in which a set of futures can be iterated.
Orders(futures) ==
    {order \in [1..Cardinality(futures) -> futures] :
        \A m, n \in DOMAIN order : m # n => order[m] # order[n]}

\* The collect loop's body over the futures of order, one after the other.
RECURSIVE CollectAll(_, _)
CollectAll(results, order) ==
    IF order = <<>> THEN results
    ELSE CollectAll(Collected(results, Head(order), w[Head(order)]),
                    Tail(order))

\* line 147: as_completed(future_to_index) is called once every item was
\* submitted.  The futures that are done by then are yielded first, in the
\* iteration order of a set; the others follow as they complete.  No timeout
\* is passed.
as_completed_enter ==
    /\ ctl = "submitting"
    /\ idx = prompts_list
    /\ LET finished == {i \in 0..(prompts_list - 1) : w[i].pc = "done"}
       IN  \E order \in Orders(finished) :
             /\ collected' = order
             /\ completed_count' = Cardinality(finished)
             /\ generated_results' = CollectAll(generated_results, order)
    /\ ctl' = "collecting"
    /\ UNCHANGED <<pc, env_vars, store_vars, idx, w, polls_left, caller_vars,
                   faults_left>>

\* A controller that hands back the results in the order it collected them.
ReturnedAsCollected(results) == results

\* The list generate_images_parallel returns (lines 168-171).
Returned(results) == SortByIndex(results)

\* A controller that returns what it has collected so far and leaves the
\* workers still running behind.
batch_return_early ==
    /\ ctl = "collecting"
    /\ generated_results' = Returned(generated_results)
    /\ ctl' = "returned"
    /\ pc' = "batch_returned"
    /\ UNCHANGED <<env_vars, store_vars, idx, w, collected, completed_count,
                   polls_left, caller_vars, faults_left>>

\* The collect loop ends once every future was yielded; the executor is shut
\* down (every worker is done by then), the results are sorted and returned.
batch_return ==
    /\ ctl = "collecting"
    /\ Len(collected) = prompts_list
    /\ generated_results' = Returned(generated_results)
    /\ ctl' = "returned"
    /\ pc' = "batch_returned"
    /\ UNCHANGED <<env_vars, store_vars, idx, w, collected, completed_count,
                   polls_left, caller_vars, faults_left>>

\* ------------------------------------------------------------ callers
\* The public entry points a run can exercise:
\*   client           the modules' operations called in the order main.py
\*                    issues them, the batch through
\*                    generate_images_from_prompts (image_generator.py:183)
\*   blocking/stream  main.generate_marketing_assets_supabase and
\*                    main.generate_marketing_assets_stream_supabase
\*   generate_api / generate_stream_api   the two endpoints of app.py
\*   get_generation   MarketingDB.get_generation called for the session
\*   get_generation_api   GET /api/generations/{generation_id} of app.py
Entries == {"client", "blocking", "stream", "generate_api",
            "generate_stream_api", "get_generation", "get_generation_api"}

\* app.py:351 and 477 (and any caller of the modules): the session is created.
\* For the two reading entries this is the earlier request, of Owner, that
\* created the session the read asks for.
create_session ==
    /\ pc = "begin"
    /\ \E exc \in Raises :
         /\ create_generation_session(exc)
         /\ Spend(Cost(exc))
    /\ pc' = "created"
    /\ UNCHANGED <<env_vars, table_images, memory_has_list, memory_images,
                   batch_vars, caller_vars>>

\* The text assets and total_images are written (main.py:65 and 161 issue
\* this call and drop the bool it returns).
client_update_assets ==
    /\ entry = "client"
    /\ pc = "created"
    /\ \E exc \in Raises :
         /\ update_generation_assets(prompts_list, exc)
         /\ Spend(Cost(exc))
    /\ pc' = "assets_saved"
    /\ UNCHANGED <<env_vars, table_images, memory_has_list, memory_images,
                   batch_vars, caller_vars>>

\* generate_images_from_prompts(prompts_data, generation_id, user_id)
client_generate_images ==
    /\ entry = "client"
    /\ pc = "assets_saved"
    /\ generate_images_parallel_enter
    /\ UNCHANGED <<env_vars, store_vars, caller_vars>>
    /\ UNCHANGED faults_left

\* Whether the client has made this finalizing call: it makes each at most
\* once, in either order (an orchestrator completes the session and the
\* handler around it marks it failed when anything after that raises).
Called(op) == \E n \in DOMAIN finalize_calls : finalize_calls[n] = op

\* db.complete_generation(generation_id, total_time) after the batch.
client_complete ==
    /\ entry = "client"
    /\ pc = "batch_returned"
    /\ ~Called("complete_generation")
    /\ \E exc \in Raises :
         /\ complete_generation(exc)
         /\ Spend(Cost(exc))
    /\ finalize_calls' = Append(finalize_calls, "complete_generation")
    /\ UNCHANGED <<pc, env_vars, table_images, memory_has_list, memory_images,
                   batch_vars, got, events, http, angles_task, email_task>>

\* db.fail_generation(generation_id, message) after the batch.
client_fail ==
    /\ entry = "client"
    /\ pc = "batch_returned"
    /\ ~Called("fail_generation")
    /\ \E exc \in Raises :
         /\ fail_generation(exc)
         /\ Spend(Cost(exc))
    /\ finalize_calls' = Append(finalize_calls, "fail_generation")
    /\ UNCHANGED <<pc, env_vars, table_images, memory_has_list, memory_images,
                   batch_vars, got, events, http, angles_task, email_task>>
\* ------------------------------------------------------ orchestrators
Orchestrators == {"blocking", "stream"}

\* What the caller of the streaming orchestrator receives for an event.
Yield(evs, type) == Append(evs, type)

\* main.py:39-43 and 133-138: the brief call and its parse; either may raise.
\* The streaming orchestrator yields the brief at once.
orch_brief ==
    /\ entry \in Orchestrators
    /\ pc = "created"
    /\ \E ok \in BOOLEAN :
         IF ok
         THEN /\ pc' = "brief"
              /\ events' = IF entry = "stream" THEN Yield(events, "brief")
                           ELSE events
              /\ Spend(0)
         ELSE /\ pc' = "raised"
              /\ UNCHANGED events
              /\ Spend(1)
    /\ UNCHANGED <<env_vars, store_vars, batch_vars, got, finalize_calls, http,
                   angles_task, email_task>>

\* An orchestrator that calls generate_creative_angles without the brief.
blocking_angles_call_early ==
    /\ entry = "blocking"
    /\ pc = "created"
    /\ angles_task' = "running"
    /\ pc' = "angles_call"
    /\ UNCHANGED <<env_vars, store_vars, batch_vars, got, finalize_calls, events,
                   http, email_task>>
    /\ UNCHANGED faults_left

\* main.py:47: the blocking orchestrator calls generate_creative_angles ...
blocking_angles_call ==
    /\ entry = "blocking"
    /\ pc = "brief"
    /\ angles_task' = "running"
    /\ pc' = "angles_call"
    /\ UNCHANGED <<env_vars, store_vars, batch_vars, got, finalize_calls, events,
                   http, email_task>>
    /\ UNCHANGED faults_left

\* ... and goes on (line 48, the parse) only when it has returned.
blocking_angles_return ==
    /\ entry = "blocking"
    /\ pc = "angles_call"
    /\ \E ok \in BOOLEAN :
         /\ angles_task' = (IF ok THEN "done" ELSE "raised")
         /\ pc' = (IF ok THEN "angles" ELSE "raised")
         /\ Spend(Cost(~ok))
    /\ UNCHANGED <<env_vars, store_vars, batch_vars, got, finalize_calls, events,
                   http, email_task>>

\* main.py:53: then it calls generate_marketing_email ...
blocking_email_call ==
    /\ entry = "blocking"
    /\ pc = "angles"
    /\ email_task' = "running"
    /\ pc' = "email_call"
    /\ UNCHANGED <<env_vars, store_vars, batch_vars, got, finalize_calls, events,
                   http, angles_task>>
    /\ UNCHANGED faults_left

\* ... and parses its answer (line 54).
blocking_email_return ==
    /\ entry = "blocking"
    /\ pc = "email_call"
    /\ \E ok \in BOOLEAN :
         /\ email_task' = (IF ok THEN "done" ELSE "raised")
         /\ pc' = (IF ok THEN "email" ELSE "raised")
         /\ Spend(Cost(~ok))
    /\ UNCHANGED <<env_vars, store_vars, batch_vars, got, finalize_calls, events,
                   http, angles_task>>

\* main.py:142-145: asyncio.gather starts both to_thread calls.
stream_gather ==
    /\ entry = "stream"
    /\ pc = "brief"
    /\ angles_task' = "running"
    /\ email_task' = "running"
    /\ pc' = "gather"
    /\ UNCHANGED <<env_vars, store_vars, batch_vars, got, finalize_calls, events,
                   http>>
    /\ UNCHANGED faults_left

\* The thread of the angles call ends (it is not cancelled when the other
\* call has raised).
stream_angles_done ==
    /\ entry = "stream"
    /\ angles_task = "running"
    /\ \E ok \in BOOLEAN :
         /\ angles_task' = (IF ok THEN "done" ELSE "raised")
         /\ Spend(Cost(~ok))
    /\ UNCHANGED <<pc, env_vars, store_vars, batch_vars, got, finalize_calls,
                   events, http, email_task>>

\* The thread of the email call ends.
stream_email_done ==
    /\ entry = "stream"
    /\ email_task = "running"
    /\ \E ok \in BOOLEAN :
         /\ email_task' = (IF ok THEN "done" ELSE "raised")
         /\ Spend(Cost(~ok))
    /\ UNCHANGED <<pc, env_vars, store_vars, batch_vars, got, finalize_calls,
                   events, http, angles_task>>

\* main.py:145-151: gather raises as soon as one call has raised; when both
\* have returned the two answers are parsed (which may raise) and the email
\* event is yielded.
stream_gather_return ==
    /\ entry = "stream"
    /\ pc = "gather"
    /\ \/ /\ "raised" \in {angles_task, email_task}
          /\ pc' = "raised"
          /\ UNCHANGED events
          /\ Spend(0)
       \/ /\ angles_task = "done"
          /\ email_task = "done"
          /\ \E ok \in BOOLEAN :
               /\ IF ok THEN /\ pc' = "email"
                             /\ events' = Yield(events, "email")
                        ELSE /\ pc' = "raised"
                             /\ UNCHANGED events
               /\ Spend(Cost(~ok))
    /\ UNCHANGED <<env_vars, store_vars, batch_vars, got, finalize_calls, http,
                   angles_task, email_task>>

\* main.py:57-62 and 153-158: the image-prompt call and its parse.
orch_prompts ==
    /\ entry \in Orchestrators
    /\ pc = "email"
    /\ \E ok \in BOOLEAN :
         /\ pc' = (IF ok THEN "prompts" ELSE "raised")
         /\ Spend(Cost(~ok))
    /\ UNCHANGED <<env_vars, store_vars, batch_vars, caller_vars>>

\* An orchestrator that goes on to the images without writing the assets.
orch_skips_assets ==
    /\ entry \in Orchestrators
    /\ pc = "prompts"
    /\ pc' = "assets_saved"
    /\ events' = IF entry = "stream" THEN Yield(events, "image_start")
                 ELSE events
    /\ UNCHANGED <<env_vars, store_vars, batch_vars, got, finalize_calls, http,
                   angles_task, email_task, faults_left>>

\* main.py:64-72 and 160-171: the assets are written, the bool returned is
\* dropped, and the streaming orchestrator yields image_start.
orch_update_assets ==
    /\ entry \in Orchestrators
    /\ pc = "prompts"
    /\ \E exc \in Raises :
         /\ update_generation_assets(prompts_list, exc)
         /\ Spend(Cost(exc))
    /\ pc' = "assets_saved"
    /\ events' = IF entry = "stream" THEN Yield(events, "image_start")
                 ELSE events
    /\ UNCHANGED <<env_vars, table_images, memory_has_list, memory_images,
                   batch_vars, got, finalize_calls, http, angles_task,
                   email_task>>

\* main.py:77-82 and 176-181: the batch controller is called with a keyword
\* it does not have (max_workers; max_concurrent for the async wrapper), so
\* the call raises TypeError before the controller is entered, and the
\* exception leaves the orchestrator.
orch_call_batch ==
    /\ entry \in Orchestrators
    /\ pc = "assets_saved"
    /\ pc' = "raised"
    /\ UNCHANGED <<env_vars, store_vars, batch_vars, caller_vars>>
    /\ UNCHANGED faults_left

\* ---------------------------------------------------------- endpoints
\* app.py:369-375: generate_api awaits main.generate_marketing_assets, the
\* name app.py:47 imports.  That is the function of main.py:211-213, which
\* takes neither user_id nor generation_id and whose body raises: every call
\* raises.
api_call ==
    /\ entry = "generate_api"
    /\ pc = "created"
    /\ pc' = "gen_error"
    /\ UNCHANGED <<env_vars, store_vars, batch_vars, caller_vars>>
    /\ UNCHANGED faults_left

\* The status generate_api answers with once the generation has raised.
ApiFailure == "500"

\* app.py:399-408: the session is marked failed and HTTP 500 is raised.
api_fail ==
    /\ entry = "generate_api"
    /\ pc = "gen_error"
    /\ \E exc \in Raises :
         /\ fail_generation(exc)
         /\ Spend(Cost(exc))
    /\ finalize_calls' = Append(finalize_calls, "fail_generation")
    /\ http' = ApiFailure
    /\ pc' = "done"
    /\ UNCHANGED <<env_vars, table_images, memory_has_list, memory_images,
                   batch_vars, got, events, angles_task, email_task>>

\* app.py:493-502: generate() yields the start event.
stream_start ==
    /\ entry = "generate_stream_api"
    /\ pc = "created"
    /\ events' = Yield(events, "start")
    /\ pc' = "streaming"
    /\ UNCHANGED <<env_vars, store_vars, batch_vars, got, finalize_calls, http,
                   angles_task, email_task>>
    /\ UNCHANGED faults_left

\* app.py:505-511: generate() calls main.generate_marketing_assets_stream
\* (main.py:215-217), which raises like its blocking twin.
stream_call ==
    /\ entry = "generate_stream_api"
    /\ pc = "streaming"
    /\ pc' = "gen_error"
    /\ UNCHANGED <<env_vars, store_vars, batch_vars, caller_vars>>
    /\ UNCHANGED faults_left

\* app.py:523-528: the handler marks the session failed ...
stream_fail ==
    /\ entry = "generate_stream_api"
    /\ pc = "gen_error"
    /\ \E exc \in Raises :
         /\ fail_generation(exc)
         /\ Spend(Cost(exc))
    /\ finalize_calls' = Append(finalize_calls, "fail_generation")
    /\ pc' = "marked_failed"
    /\ UNCHANGED <<env_vars, table_images, memory_has_list, memory_images,
                   batch_vars, got, events, http, angles_task, email_task>>

\* A handler that ends the stream after a failure without a last event.
EndsSilently(evs) == evs

\* A handler that reports the failure and then still sends the completion.
ErrorThenComplete(evs) == Yield(Yield(evs, "error"), "complete")

\* The events generate() yields after the generation has raised.
ErrorEvents(evs) == Yield(evs, "error")

\* ... and yields the error event (app.py:530-536), which ends the stream.
stream_error ==
    /\ entry = "generate_stream_api"
    /\ pc = "marked_failed"
    /\ events' = ErrorEvents(events)
    /\ http' = "200"
    /\ pc' = "done"
    /\ UNCHANGED <<env_vars, store_vars, batch_vars, got, finalize_calls,
                   angles_task, email_task>>
    /\ UNCHANGED faults_left

\* -------------------------------------------------------------- reads
\* What a read returns when it finds nothing (None).
None == [found |-> FALSE]

\* What a read returns for a session record it found: the record with its
\* images and the store it came from.
Found(rec, images, storage) ==
    Update(rec, [found |-> TRUE, images |-> images, storage |-> storage])

\* A get_generation that hands out the memory record whoever asks.
get_generation_unscoped(user_id, exc) ==
    IF /\ client /\ ~exc /\ table_generations # <<>>
       /\ (user_id = NoUser \/ table_generations[1].user_id = user_id)
    THEN Found(table_generations[1], table_images, "supabase")
    ELSE IF memory_generations # <<>>
    THEN Found(memory_generations[1], memory_images, "memory")
    ELSE None

\* MarketingDB.get_generation(generation_id, user_id), supabase_db.py:305-354.
\* With a client the row is selected by id, and by user_id when one is given;
\* .single() raises when no row matches, and that or any other failure of
\* the two requests is caught (line 332) and leads on to the memory record,
\* which is handed out unless a user_id is given that is not its owner's.
get_generation(user_id, exc) ==
    IF /\ client /\ ~exc /\ table_generations # <<>>
       /\ (user_id = NoUser \/ table_generations[1].user_id = user_id)
    THEN Found(table_generations[1], table_images, "supabase")
    ELSE IF memory_generations # <<>>
    THEN IF user_id # NoUser /\ memory_generations[1].user_id # user_id
         THEN None
         ELSE Found(memory_generations[1], memory_images, "memory")
    ELSE None

\* A caller reads the session through db.get_generation.  A record found in
\* memory is the stored dict itself, to which lines 345-346 add the keys
\* images and storage.
db_get_generation ==
    /\ entry = "get_generation"
    /\ pc \in {"begin", "created"}
    /\ \E exc \in Raises :
         /\ got' = get_generation(reader, exc)
         /\ IF got'.found /\ got'.storage = "memory"
            THEN memory_generations' =
                   <<Update(memory_generations[1],
                            [images |-> memory_images, storage |-> "memory"])>>
            ELSE UNCHANGED memory_generations
         /\ Spend(Cost(exc))
    /\ pc' = "read_done"
    /\ UNCHANGED <<env_vars, table_generations, table_images, memory_has_list,
                   memory_images, batch_vars, finalize_calls, events, http,
                   angles_task, email_task>>

\* The status GET /api/generations/{generation_id} answers with
\* (app.py:636-685).  Only the database is asked.  The HTTPException(404) of
\* lines 661-664 is raised inside the try block whose handler, `except
\* Exception` (line 668), catches it like any failure of the query and
\* raises 503 in its place; the outer `except HTTPException` passes that on.
GetStatus(found) == IF found THEN "200" ELSE "503"

\* GET /api/generations/{generation_id} for the reader: the row is selected
\* by id and user_id with .single(), which raises when no row matches.
get_generation_api ==
    /\ entry = "get_generation_api"
    /\ pc \in {"begin", "created"}
    /\ \E exc \in Raises :
         /\ http' = GetStatus(/\ client /\ ~exc /\ table_generations # <<>>
                              /\ table_generations[1].user_id = reader)
         /\ Spend(Cost(exc))
    /\ pc' = "read_done"
    /\ UNCHANGED <<env_vars, store_vars, batch_vars, finalize_calls, events,
                   angles_task, email_task, got>>

\* ---------------------------------------------------------- properties
\* The item indices of the batch.
BatchItems == 0..(prompts_list - 1)

\* The image_index values of a result list, in order.
Indices(results) == [n \in DOMAIN results |-> results[n].image_index]

\* Every item of the batch came back with a saved record.
AllSaved == \A i \in BatchItems : w[i].pc = "done" /\ Saved(w[i])

\* The session's counters (a record that lacks one reads as 0).
CompletedImages == Get(Session, "completed_images", 0)
TotalImages == Get(Session, "total_images", 0)

\* C1 (batch ordering): when every item of a batch succeeds, the list
\* generate_images_parallel returns carries the image_index values 0..N-1 in
\* ascending order, whatever the order in which the workers completed.
C1_BatchOrdering ==
    (ctl = "returned" /\ AllSaved) =>
        Indices(generated_results) = [n \in 1..prompts_list |-> n - 1]

\* A full batch of successes whose last item was collected first.
C1_Witness ==
    /\ ctl = "returned"
    /\ prompts_list = MaxItems
    /\ AllSaved
    /\ collected[1] = MaxItems - 1
    /\ Len(generated_results) = MaxItems

\* An item failed: its worker returned None, or (with a Supabase client) the
\* insert of its row failed.
ItemFailed(i) == w[i].fault # "" \/ (client /\ w[i].store = "memory")

\* C2 (failure isolation): when exactly one item k of a batch fails (at
\* submit, poll, transfer or record write) and the others succeed, the batch
\* returns exactly N-1 entries, none of them with image_index k.
C2_FailureIsolation ==
    \A k \in BatchItems :
        ( /\ ctl = "returned"
          /\ ItemFailed(k)
          /\ \A i \in BatchItems \ {k} : ~ItemFailed(i) )
        => /\ Len(generated_results) = prompts_list - 1
           /\ \A n \in DOMAIN generated_results :
                generated_results[n].image_index # k

\* C3 (no lost counter updates): when the N workers of a batch all succeed
\* and all carry out the increment of completed_images, the session's
\* completed_images is N once the batch has returned.
C3_NoLostUpdates ==
    ( /\ ctl = "returned"
      /\ prompts_list > 0
      /\ \A i \in BatchItems : w[i].inc = "incremented" )
    => CompletedImages = prompts_list

\* The event types that end a stream.
TerminalEvents == {"complete", "error"}

C5_StatusOneWay ==
    [][ (HasSession /\ Session.status # "processing")
           => Session'.status = Session.status ]_vars

\* The endpoints that serve a generation request.
Requests == {"generate_api", "generate_stream_api"}

\* C6 (exactly-once finalization): when a generation request that created a
\* session has ended, exactly one finalizing write was applied to the
\* session: one call was made and the session is no longer processing.
C6_FinalizedOnce ==
    (entry \in Requests /\ http # "" /\ HasSession) =>
        /\ Len(finalize_calls) = 1
        /\ Session.status \in {"completed", "failed"}

\* C7 (counter monotonicity): no step lowers a session's completed_images.
C7_CounterMonotone ==
    [][ HasSession => CompletedImages' >= CompletedImages ]_vars

\* C8 (counter bound): completed_images never exceeds total_images, also
\* when the write of total_images failed.
C8_CounterBound == HasSession => CompletedImages <= TotalImages

\* C9 (empty batch): generate_images_parallel called with no prompt returns
\* the empty list at once; no worker is started, no engine, transfer or
\* Record Store call is made and the session is as it was.
C9_EmptyBatch ==
    (entry = "client" /\ prompts_list = 0 /\ ctl # "idle") =>
        /\ ctl = "returned"
        /\ generated_results = <<>>
        /\ \A i \in Items : w[i] = IdleWorker
        /\ polls_left = MaxPolls
        /\ table_images = {}
        /\ ~memory_has_list /\ memory_images = <<>>
        /\ CompletedImages = 0
        /\ finalize_calls = <<>> => Session.status = "processing"

\* The empty batch has returned.
C9_Witness ==
    /\ entry = "client"
    /\ prompts_list = 0
    /\ ctl = "returned"
    /\ pc = "batch_returned"
    /\ generated_results = <<>>

\* C10 (no deadline): the controller has not returned while a worker of the
\* batch is not done; and when no service fails, every item is in the
\* returned list, however many polls found its job still processing.
C10_NoDeadline ==
    ctl = "returned" =>
        /\ \A i \in BatchItems : w[i].pc = "done"
        /\ (a2e_configured /\ faults_left = MaxFaults) =>
               Indices(generated_results) = [n \in 1..prompts_list |-> n - 1]

\* A batch returned in full after the engine answered processing (or a poll
\* raised) as often as it may.
C10_Witness ==
    /\ ctl = "returned"
    /\ prompts_list > 0
    /\ polls_left = 0
    /\ faults_left = MaxFaults
    /\ Len(generated_results) = prompts_list


\* The positions of a worker inside process_single_image, and its return.
WorkerPositions ==
    {"unsubmitted", "start", "polling", "generated", "uploaded", "inserted",
     "selected", "memory_check", "memory_init", "memory_append",
     "memory_read", "done"}

\* C11 (the worker never raises): whatever fails at submit, poll, download,
\* upload or record insert, a worker is inside process_single_image or has
\* returned, and a worker that has returned holds either a saved record or
\* None, never both and never an exception.
C11_WorkerNeverRaises ==
    \A i \in Items :
        /\ w[i].pc \in WorkerPositions
        /\ w[i].pc = "done" => (Saved(w[i]) <=> w[i].fault = "")

\* One worker returned None after a failed submit or download, another
\* returned its record, and the batch has returned.
C11_Witness ==
    \E i, j \in BatchItems :
        /\ w[i].pc = "done" /\ w[i].fault \in {"submit", "download"}
        /\ w[j].pc = "done" /\ Saved(w[j])
        /\ ctl = "returned"

\* No external service has failed in this run.
NoFailure == faults_left = MaxFaults

\* The orchestrator called has ended: it returned or an exception left it.
OrchestratorEnded == entry \in Orchestrators /\ pc = "raised"

\* The place of an event type in the order of the streaming orchestrator's
\* yields (main.py:137, 150, 171, 187, 195).
EventRank(type) ==
    CASE type = "brief" -> 1
      [] type = "email" -> 2
      [] type = "image_start" -> 3
      [] type = "image" -> 4
      [] type = "complete" -> 5
      [] OTHER -> 0

\* How many events of a type the caller has received.
Count(evs, type) == Cardinality({n \in DOMAIN evs : evs[n] = type})

\* C12 (streaming event order): the streaming orchestrator's events come in
\* the order brief, email, image_start, image events, complete, with no more
\* image events than prompts; and a run in which nothing failed ends with
\* the complete event.
C12_StreamEventOrder ==
    entry = "stream" =>
        /\ \A m, n \in DOMAIN events :
             m < n => /\ EventRank(events[m]) <= EventRank(events[n])
                      /\ events[n] # "image" => events[m] # events[n]
        /\ Count(events, "image") <= prompts_list
        /\ (OrchestratorEnded /\ NoFailure) =>
               (events # <<>> /\ events[Len(events)] = "complete")

\* C13 (image events on completion): the streaming orchestrator emits the
\* image event of an item when that item finishes, so a run in which nothing
\* failed has emitted one image event per prompt by the time it ends.
C13_ImageEventsOnCompletion ==
    (entry = "stream" /\ OrchestratorEnded /\ NoFailure /\ a2e_configured) =>
        Count(events, "image") = prompts_list

\* Every item of a non-empty batch came back as None.
AllFailed == prompts_list > 0 /\ \A i \in BatchItems : ~Saved(w[i])

\* C14 (all-fail batch): when every item of a non-empty batch fails,
\* generate_images_parallel returns the empty list, and the orchestrator that
\* ran the batch (here: with the engine's credentials missing, so that every
\* item fails) ends with the session completed.
C14_AllFailBatch ==
    /\ (ctl = "returned" /\ AllFailed) => generated_results = <<>>
    /\ (OrchestratorEnded /\ NoFailure /\ ~a2e_configured /\ prompts_list > 0)
           => Session.status = "completed"

\* The image_index values for which a record is stored, in either store.
StoredIndices ==
    {rec.image_index : rec \in table_images} \cup
    {memory_images[n].image_index : n \in DOMAIN memory_images}

\* C15 (a failed item leaves no trace): an item whose worker returned None
\* has no image record stored and made no increment; so after a batch of 3
\* items of which only the middle one failed, the returned indices are 0, 2
\* and completed_images is 2.
C15_FailedItemNoTrace ==
    /\ \A i \in BatchItems :
         (w[i].pc = "done" /\ ~Saved(w[i])) =>
             (i \notin StoredIndices /\ w[i].inc = "")
    /\ ( /\ ctl = "returned"
         /\ prompts_list = 3
         /\ ~Saved(w[1]) /\ Saved(w[0]) /\ Saved(w[2]) )
       => /\ Indices(generated_results) = <<0, 2>>
          /\ CompletedImages = 2

\* A worker that was started and has not returned.
InFlight(i) == w[i].pc \notin {"unsubmitted", "done"}

\* C16 (true-parallel fan-out): the controller starts one worker per item
\* index and no other; during the submit loop the items below the loop index
\* are started and no result has been waited for; once the controller waits,
\* all N workers have been started.
C16_ParallelFanOut ==
    /\ \A i \in Items \ BatchItems : w[i].pc = "unsubmitted"
    /\ ctl = "idle" => \A i \in Items : w[i].pc = "unsubmitted"
    /\ ctl = "submitting" =>
          /\ collected = <<>>
          /\ \A i \in BatchItems : (w[i].pc # "unsubmitted") <=> (i < idx)
    /\ ctl \in {"collecting", "returned"} =>
          \A i \in BatchItems : w[i].pc # "unsubmitted"

\* All workers of a full batch are in flight at once.
C16_Witness ==
    /\ prompts_list = MaxItems
    /\ ctl = "collecting"
    /\ \A i \in BatchItems : InFlight(i)

\* C17 (a successful run completes the session): when an orchestrator, or a
\* request of either endpoint, has ended and nothing failed, the session's
\* status is completed.
C17_SuccessCompletes ==
    ( /\ NoFailure
      /\ HasSession
      /\ OrchestratorEnded \/ (entry \in Requests /\ http # "") )
    => Session.status = "completed"

\* A stage of the orchestrator (brief, angles, email, prompts, or the parse
\* of their output) raises in this step.
StageRaises ==
    /\ entry \in Orchestrators
    /\ pc \notin {"assets_saved", "raised"}
    /\ pc' = "raised"

\* C18 (stage failure aborts): when a stage raises, no image job has been
\* submitted, no image record exists and the session's status is failed.
C18_StageFailureAborts ==
    [][ StageRaises =>
           /\ \A i \in Items : w'[i].pc = "unsubmitted"
           /\ table_images' = {} /\ memory_images' = <<>>
           /\ Session'.status = "failed" ]_vars

\* With a Supabase client: the insert of the session's row failed (the
\* session is kept in memory only) ...
CreateFailed == client /\ memory_generations # <<>>

\* ... or the row does not hold the number of prompts as total_images.
WriteFailed ==
    client /\ (table_generations = <<>> \/
               table_generations[1].total_images # prompts_list)

\* C19 (Record Store write failure is fatal): after a failed creation of the
\* session no caller goes on with the generation, and after a failed write
\* of the assets no caller goes on to the call of the batch controller.
C19_WriteFailureFatal ==
    [][ /\ (pc = "created" /\ CreateFailed) =>
              ~(orch_brief \/ client_update_assets \/ api_call \/ stream_start)
        /\ (pc = "assets_saved" /\ WriteFailed) =>
              ~(client_generate_images \/ orch_call_batch) ]_vars

\* C20 (no ephemeral fallback): with a Supabase client, no transfer returns a
\* result whose backend is local, and no image record points to local
\* storage.
C20_NoLocalFallback ==
    client =>
        /\ \A i \in Items : w[i].storage_type # "local"
        /\ \A rec \in table_images : rec.storage_type # "local"
        /\ \A n \in DOMAIN memory_images :
             memory_images[n].storage_type # "local"

\* C21 (a persistence failure fails the item): with a Supabase client, an
\* item whose insert into marketing_images failed is kept nowhere, its worker
\* returns None and it is not in the batch result.
C21_InsertFailureFailsItem ==
    client =>
        /\ memory_images = <<>>
        /\ \A i \in Items : w[i].store # "memory"
        /\ \A n \in DOMAIN generated_results :
             generated_results[n].store # "memory"

\* Worker i has got the engine's completed answer with a URL.
Generated(i) == w[i].pc \notin {"unsubmitted", "start", "polling"} /\
                w[i].fault \notin {"credentials", "submit", "no_urls", "failed"}

\* C22 (worker step order): a transfer result exists only for an item the
\* engine reported completed with a URL; an image record exists only for an
\* item whose transfer succeeded (to Supabase storage when there is a
\* client) and that did not fail; and the record of a saved item is still in
\* the store it was saved to.
C22_WorkerStepOrder ==
    \A i \in Items :
        /\ w[i].storage_type # "" => Generated(i)
        /\ i \in StoredIndices =>
              /\ w[i].storage_type # ""
              /\ w[i].fault = ""
              /\ client => w[i].storage_type = "supabase"
        /\ Saved(w[i]) => i \in StoredIndices

\* The records in either store.
StoredRecords ==
    table_images \cup {memory_images[n] : n \in DOMAIN memory_images}

\* Worker i is past the write of its record.
PastInsert(i) ==
    w[i].pc \in {"inserted", "selected", "memory_read"} \/ Saved(w[i])

\* C23 (index preservation): every image record stored, and every record
\* returned, carries the position of its item in the prompt list: it is the
\* record of the worker of that index, whatever the order of completion or
\* insertion.
C23_IndexPreserved ==
    /\ \A rec \in StoredRecords :
         /\ rec.image_index \in BatchItems
         /\ PastInsert(rec.image_index)
         /\ rec.storage_type = w[rec.image_index].storage_type
    /\ \A n \in DOMAIN generated_results :
         LET rec == generated_results[n]
         IN  /\ rec.image_index \in BatchItems
             /\ w[rec.image_index].pc = "done"
             /\ rec.store = w[rec.image_index].store
             /\ rec.storage_type = w[rec.image_index].storage_type

\* A full batch stored and returned, the last item collected first.
C23_Witness ==
    /\ ctl = "returned"
    /\ prompts_list = MaxItems
    /\ Cardinality(table_images) = MaxItems
    /\ collected[1] = MaxItems - 1
    /\ Len(generated_results) = MaxItems

\* C24 (a submit failure is terminal): a worker whose submit request failed
\* has returned None without a poll, a transfer or a record; when it is the
\* only item, no poll answer was consumed at all.
C24_SubmitFailureTerminal ==
    /\ \A i \in Items :
         w[i].fault = "submit" =>
             /\ w[i].pc = "done"
             /\ w[i].storage_type = "" /\ w[i].store = "" /\ w[i].inc = ""
             /\ i \notin StoredIndices
    /\ (prompts_list = 1 /\ w[0].fault = "submit") => polls_left = MaxPolls

\* The only item's submit failed and the batch has returned without it.
C24_Witness ==
    /\ prompts_list = 1
    /\ w[0].fault = "submit"
    /\ ctl = "returned"
    /\ generated_results = <<>>

\* C25 (polling state machine): a worker leaves the poll loop only on a
\* completed or failed answer; a poll that raises or carries another status
\* leaves its worker, and every other, where it was.
C25_PollingStateMachine ==
    [][ /\ \A i \in Items :
             (w[i].pc = "polling" /\ w'[i].pc # "polling") =>
                 \/ w'[i].pc = "generated"
                 \/ (w'[i].pc = "done" /\ w'[i].fault \in {"no_urls", "failed"})
        /\ polls_left' # polls_left => w' = w ]_vars

\* The only item got its completed answer after the engine had answered
\* processing, or the poll had raised, as often as it may.
C25_Witness ==
    /\ prompts_list = 1
    /\ polls_left = 0
    /\ w[0].pc = "generated"

\* C26 (angles and email run concurrently): in both orchestrators neither
\* of the two calls has ended while the other has not been started.
C26_AnglesEmailConcurrent ==
    entry \in Orchestrators =>
        /\ angles_task \in {"done", "raised"} => email_task # "idle"
        /\ email_task \in {"done", "raised"} => angles_task # "idle"

\* C27 (the brief gates the later stages): the angles call and the email
\* call start only once the brief has been returned and parsed (the
\* streaming orchestrator has yielded it by then), and the image-prompt call
\* starts only after the angles have been parsed.
C27_BriefGates ==
    [][ /\ (angles_task = "idle" /\ angles_task' # "idle") => pc = "brief"
        /\ (email_task = "idle" /\ email_task' # "idle") =>
              /\ pc \in {"brief", "angles"}
              /\ entry = "stream" => events = <<"brief">>
        /\ (pc = "email" /\ pc' # pc) =>
              (angles_task = "done" /\ email_task = "done") ]_vars

\* The blocking orchestrator has made the image-prompt call.
C27_Witness ==
    /\ entry = "blocking"
    /\ pc = "prompts"
    /\ angles_task = "done"
    /\ email_task = "done"

\* C28 (assets persisted before fan-out): items are started, and counted,
\* only inside the batch call that follows the write of the assets; so when
\* a batch call has been made and no service failed, the session holds the
\* number of prompts as total_images.
C28_AssetsBeforeFanOut ==
    /\ ( \/ ctl # "idle"
         \/ \E i \in Items : w[i].pc # "unsubmitted"
         \/ (HasSession /\ CompletedImages > 0) )
       => /\ pc \in {"in_batch", "batch_returned"}
          /\ NoFailure => TotalImages = prompts_list
    /\ (OrchestratorEnded /\ NoFailure) => TotalImages = prompts_list

\* An item has been counted while the batch runs, total_images written.
C28_Witness ==
    /\ ctl = "collecting"
    /\ HasSession
    /\ CompletedImages > 0
    /\ TotalImages = prompts_list

\* C29 (batch termination): with the threads scheduled fairly, and the
\* engine giving each job a terminal answer after finitely many others, a
\* batch that has begun submitting returns.
C29_BatchTerminates == (ctl = "submitting") ~> (ctl = "returned")

\* A full batch has returned after every non-terminal answer was used up.
C29_Witness ==
    /\ ctl = "returned"
    /\ prompts_list = MaxItems
    /\ polls_left = 0
    /\ pc = "batch_returned"

C33_NoUrlIsFailure ==
    [][ \A i \in Items :
          w'[i].fault = "no_urls" =>
            /\ w'[i].pc = "done"
            /\ ~Saved(w'[i])
            /\ w'[i].storage_type = ""
            /\ w'[i].inc = ""
            /\ i \notin StoredIndices'
            /\ w[i].fault # "no_urls" =>
                 /\ w[i].pc = "polling"
                 /\ UNCHANGED store_vars ]_vars

\* A batch has returned in which one job was completed without a URL and
\* another item was saved and counted.
C33_Witness ==
    /\ ctl = "returned"
    /\ \E i, j \in BatchItems :
         /\ w[i].fault = "no_urls"
         /\ Saved(w[j])
         /\ j \in StoredIndices
    /\ \A n \in DOMAIN generated_results :
         w[generated_results[n].image_index].fault = ""

\* C34 (writes only while processing): a step that changes the stored image
\* records or completed_images is taken while the session is processing and
\* leaves it so; and whenever the session is completed or failed, no worker
\* of its batch is in flight.
C34_WritesWhileProcessing ==
    [][ /\ ( \/ table_images' # table_images
             \/ memory_images' # memory_images
             \/ (HasSession /\ CompletedImages' # CompletedImages) )
           => /\ HasSession
              /\ Session.status = "processing"
              /\ Session'.status = "processing"
        /\ (HasSession' /\ Session'.status # "processing")
           => \A i \in Items : ~InFlight(i)' ]_vars

\* A session was finalized after a batch whose workers stored and counted
\* images.
C34_Witness ==
    /\ HasSession
    /\ Session.status \in {"completed", "failed"}
    /\ ctl = "returned"
    /\ StoredRecords # {}
    /\ CompletedImages > 0
    /\ \E i \in BatchItems : Saved(w[i])

\* C35 (terminal events are final): at every moment of a stream, an event
\* of type complete or error is the last event delivered so far: there is at
\* most one, and no event follows it.
C35_TerminalEventFinal ==
    \A n \in DOMAIN events :
        events[n] \in TerminalEvents => n = Len(events)

\* The streaming endpoint has delivered its one terminal event, after the
\* start event, and the response is over.
C35_Witness ==
    /\ entry = "generate_stream_api"
    /\ pc = "done"
    /\ Len(events) > 1
    /\ Count(events, "error") + Count(events, "complete") = 1
    /\ events[Len(events)] \in TerminalEvents

\* No two entries of a list of records carry the same image_index.
UniqueIndex(records) ==
    \A m, n \in DOMAIN records :
        m # n => records[m].image_index # records[n].image_index

\* C36 (unique index per record): a worker is started at most once and
\* submits at most one job (it enters the poll loop only from its start, and
\* is never started again); the list the batch collects and returns, the
\* rows of marketing_images and the memory image list never hold two entries
\* of one image_index, nor do the two stores together.
C36_UniqueIndex ==
    [][ /\ \A i \in Items :
             /\ w'[i].pc = "start" => w[i].pc \in {"unsubmitted", "start"}
             /\ w'[i].pc = "polling" => w[i].pc \in {"start", "polling"}
        /\ UniqueIndex(generated_results')
        /\ UniqueIndex(memory_images')
        /\ \A r, s \in StoredRecords' :
             r.image_index = s.image_index => r = s ]_vars

\* A full batch has returned one record per item, kept partly in the table
\* and partly in the memory fallback.
C36_Witness ==
    /\ ctl = "returned"
    /\ prompts_list = MaxItems
    /\ Len(generated_results) = MaxItems
    /\ table_images # {}
    /\ memory_images # <<>>
    /\ Cardinality(StoredIndices) = MaxItems

\* The items whose record add_generated_image returned from its memory
\* fallback.
SavedInMemory == {i \in BatchItems : w[i].store = "memory"}

\* C37 (the in-memory fallback keeps every saved image): once the batch has
\* returned, every image the memory fallback returned as saved is in the
\* session's memory image list, and the completed_images of a session kept
\* in memory is the number of those images.
C37_MemoryKeepsSaved ==
    ctl = "returned" =>
        /\ \A i \in SavedInMemory :
             \E n \in DOMAIN memory_images : memory_images[n].image_index = i
        /\ memory_generations # <<>> =>
             Get(memory_generations[1], "completed_images", 0) =
                 Cardinality(SavedInMemory)

\* C32 (owner-scoped read): in every state of the stores, get_generation
\* asked by a user who is not the session's owner finds nothing, whether the
\* session is a row of the table or a memory record and whether or not the
\* request fails; and that is what a caller who asked got.
C32_OwnerScopedRead ==
    /\ \A user_id \in Users \ {Owner} :
         \A exc \in Raises : get_generation(user_id, exc) = None
    /\ ( /\ entry = "get_generation"
         /\ pc = "read_done"
         /\ reader \in Users \ {Owner} ) => got = None

\* A user who is not the owner has asked for an existing session and got
\* nothing, while the owner would be handed the session.
C32_Witness ==
    /\ entry = "get_generation"
    /\ pc = "read_done"
    /\ reader \in Users \ {Owner}
    /\ HasSession
    /\ Session.user_id = Owner
    /\ got = None
    /\ get_generation(Owner, FALSE).found

\* C38 (not-found is reported as 404): a GET of a generation that is not in
\* the database, or is another user's, is answered with 404 when no query
\* failed, not with 503.
C38_NotFoundIs404 ==
    ( /\ entry = "get_generation_api"
      /\ http # ""
      /\ NoFailure
      /\ \/ table_generations = <<>>
         \/ table_generations[1].user_id # reader )
    => http = "404"

\* ------------------------------------------------------ specification
Init ==
    /\ entry \in Entries
    /\ pc = "begin"
    /\ a2e_configured \in BOOLEAN
    /\ client \in BOOLEAN
    /\ table_generations = <<>>
    /\ table_images = {}
    /\ memory_generations = <<>>
    /\ memory_has_list = FALSE
    /\ memory_images = <<>>
    /\ prompts_list \in 0..MaxItems
    /\ ctl = "idle"
    /\ idx = 0
    /\ w = [i \in Items |-> IdleWorker]
    /\ collected = <<>>
    /\ completed_count = 0
    /\ generated_results = <<>>
    /\ polls_left = MaxPolls
    /\ finalize_calls = <<>>
    /\ events = <<>>
    /\ http = ""
    /\ angles_task = "idle"
    /\ email_task = "idle"
    /\ reader \in CASE entry = "get_generation" -> Users \cup {NoUser}
                   [] entry = "get_generation_api" -> Users
                   [] OTHER -> {Owner}
    /\ got = None
    /\ faults_left = MaxFaults

Next ==
    \/ create_session
    \/ db_get_generation
    \/ get_generation_api
    \/ client_update_assets
    \/ client_generate_images
    \/ client_complete
    \/ client_fail
    \/ submit_task
    \/ \E i \in Items : process_single_image(i)
    \/ as_completed_enter
    \/ batch_return
    \/ orch_brief
    \/ blocking_angles_call
    \/ blocking_angles_return
    \/ blocking_email_call
    \/ blocking_email_return
    \/ stream_gather
    \/ stream_angles_done
    \/ stream_email_done
    \/ stream_gather_return
    \/ orch_prompts
    \/ orch_update_assets
    \/ orch_call_batch
    \/ api_call
    \/ api_fail
    \/ stream_start
    \/ stream_call
    \/ stream_fail
    \/ stream_error

Spec == Init /\ [][Next]_vars

\* The threads of a batch are scheduled fairly: the controller's thread and
\* every worker thread of the executor take their next step when they can.
FairSpec ==
    /\ Spec
    /\ WF_vars(submit_task)
    /\ WF_vars(as_completed_enter)
    /\ WF_vars(batch_return)
    /\ \A i \in Items : WF_vars(process_single_image(i))

\* The same, except that the worker of item 0 may stay in its poll loop for
\* ever (its job never reports a terminal status).
StuckSpec ==
    /\ Spec
    /\ WF_vars(submit_task)
    /\ WF_vars(as_completed_enter)
    /\ WF_vars(batch_return)
    /\ \A i \in Items \ {0} : WF_vars(process_single_image(i))
====
